---- MODULE Spec2Model ----
(***************************************************************************)
(* A model of sp0256.py, a GI SP0256-AL2 speech synthesis simulator.       *)
(*                                                                         *)
(* Python strings are modelled as sequences of one-character strings, so   *)
(* that indexing, concatenation, digit stripping and tokenizing are        *)
(* computed character by character as the code computes them.  WAV file    *)
(* names are atomic and are modelled as TLA+ strings.  A Python dict is    *)
(* modelled as a sequence of (key, value) records in declaration order,    *)
(* because the code iterates over the dicts.                               *)
(***************************************************************************)
EXTENDS Integers, Sequences, FiniteSets, TLC

(***************************************************************************)
(* Bounds of the model.                                                    *)
(***************************************************************************)
MaxLabelLen == 3

MaxTextLen == 3

\* characters the allophone labels of the resolver runs are built from
LabelChars == {"A", "Y", "D", "Z", "C", "E", "H", "R", "0", "1"}

\* characters the input texts of the pipeline runs are built from
TextChars == {"h", "i", "H", ".", ",", " ", "!"}

\* sample rates a WAV file of the allophone directory may have
SampleRates == {11025, 22050}

(***************************************************************************)
(* Character classes of Python's str and re, over the model's characters.  *)
(***************************************************************************)
Digits == {"0", "1", "2", "3", "4", "5", "6", "7", "8", "9"}

UpperCase == {"A", "B", "C", "D", "E", "F", "G", "H", "I", "J", "K", "L", "M",
              "N", "O", "P", "Q", "R", "S", "T", "U", "V", "W", "X", "Y", "Z"}

LowerCase == {"a", "b", "c", "d", "e", "f", "g", "h", "i", "j", "k", "l", "m",
              "n", "o", "p", "q", "r", "s", "t", "u", "v", "w", "x", "y", "z"}

\* str.isdigit() of one character
isdigit(char) == char \in Digits

\* the regular expression class \w
IsWordChar(char) == char \in UpperCase \cup LowerCase \cup Digits \cup {"_"}

\* the regular expression class \s
IsSpaceChar(char) == char \in {" ", "\t", "\n"}

\* str.lower() of one character
LowerChar(char) ==
    CASE char = "A" -> "a" [] char = "B" -> "b" [] char = "C" -> "c"
      [] char = "D" -> "d" [] char = "E" -> "e" [] char = "F" -> "f"
      [] char = "G" -> "g" [] char = "H" -> "h" [] char = "I" -> "i"
      [] char = "J" -> "j" [] char = "K" -> "k" [] char = "L" -> "l"
      [] char = "M" -> "m" [] char = "N" -> "n" [] char = "O" -> "o"
      [] char = "P" -> "p" [] char = "Q" -> "q" [] char = "R" -> "r"
      [] char = "S" -> "s" [] char = "T" -> "t" [] char = "U" -> "u"
      [] char = "V" -> "v" [] char = "W" -> "w" [] char = "X" -> "x"
      [] char = "Y" -> "y" [] char = "Z" -> "z"
      [] OTHER -> char

\* str.lower()
lower(text) == [i \in 1..Len(text) |-> LowerChar(text[i])]

(***************************************************************************)
(* The allophone catalogs, in declaration order.                           *)
(***************************************************************************)
Entry(k, f) == [key |-> k, files |-> f]

numbered ==
    << Entry(<<"B", "B">>, <<"BB1.wav", "BB2.wav">>),
       Entry(<<"D", "D">>, <<"DD1.wav", "DD2.wav">>),
       Entry(<<"D", "H">>, <<"DH1.wav", "DH2.wav">>),
       Entry(<<"E", "R">>, <<"ER1.wav", "ER2.wav">>),
       Entry(<<"G", "G">>, <<"GG2.wav", "GG3.wav">>),
       Entry(<<"H", "H">>, <<"HH1.wav", "HH2.wav">>),
       Entry(<<"K", "K">>, <<"KK1.wav", "KK2.wav", "KK3.wav">>),
       Entry(<<"N", "N">>, <<"NN1.wav", "NN2.wav">>),
       Entry(<<"R", "R">>, <<"RR1.wav", "RR2.wav">>),
       Entry(<<"T", "T">>, <<"TT1.wav", "TT2.wav">>),
       Entry(<<"U", "W">>, <<"UW1.wav", "UW2.wav">>),
       Entry(<<"Y", "Y">>, <<"YY1.wav", "YY2.wav">>) >>

unnumbered ==
    << Entry(<<"A", "A">>, <<"AA.wav">>),
       Entry(<<"A", "E">>, <<"AE.wav">>),
       Entry(<<"A", "O">>, <<"AO.wav">>),
       Entry(<<"A", "R">>, <<"AR.wav">>),
       Entry(<<"A", "W">>, <<"AW.wav">>),
       Entry(<<"A", "X">>, <<"AX.wav">>),
       Entry(<<"A", "Y">>, <<"AY.wav">>),
       Entry(<<"C", "H">>, <<"CH.wav">>),
       Entry(<<"E", "H">>, <<"EH.wav">>),
       Entry(<<"E", "L">>, <<"EL.wav">>),
       Entry(<<"E", "Y">>, <<"EY.wav">>),
       Entry(<<"F", "F">>, <<"FF.wav">>),
       Entry(<<"G", "O", "T">>, <<"GOT.wav">>),
       Entry(<<"I", "H">>, <<"IH.wav">>),
       Entry(<<"I", "Y">>, <<"IY.wav">>),
       Entry(<<"J", "H">>, <<"JH.wav">>),
       Entry(<<"L", "L">>, <<"LL.wav">>),
       Entry(<<"M", "M">>, <<"MM.wav">>),
       Entry(<<"N", "G">>, <<"NG.wav">>),
       Entry(<<"O", "R">>, <<"OR.wav">>),
       Entry(<<"O", "W">>, <<"OW.wav">>),
       Entry(<<"O", "Y">>, <<"OY.wav">>),
       Entry(<<"P", "P">>, <<"PP.wav">>),
       Entry(<<"S", "H">>, <<"SH.wav">>),
       Entry(<<"S", "S">>, <<"SS.wav">>),
       Entry(<<"T", "H">>, <<"TH.wav">>),
       Entry(<<"U", "H">>, <<"UH.wav">>),
       Entry(<<"V", "V">>, <<"VV.wav">>),
       Entry(<<"W", "H">>, <<"WH.wav">>),
       Entry(<<"W", "W">>, <<"WW.wav">>),
       Entry(<<"X", "R">>, <<"XR.wav">>),
       Entry(<<"Y", "R">>, <<"YR.wav">>),
       Entry(<<"Z", "H">>, <<"ZH.wav">>),
       Entry(<<"Z", "Z">>, <<"ZZ.wav">>) >>

\* key in d, for a dict d
InDict(d, k) == \E i \in DOMAIN d : d[i].key = k

\* d[key], for a key of the dict d
DictGet(d, k) == d[CHOOSE i \in DOMAIN d : d[i].key = k].files

\* the keys of a dict, as a set
Keys(d) == {d[i].key : i \in DOMAIN d}

(***************************************************************************)
(* allophone_contains_digit: [allophone, digits_removed] when the          *)
(* allophone has a digit, the empty list otherwise.                        *)
(***************************************************************************)
RECURSIVE digits_removed(_)
digits_removed(allophone) ==
    IF allophone = <<>> THEN <<>>
    ELSE IF isdigit(Head(allophone)) THEN digits_removed(Tail(allophone))
    ELSE <<Head(allophone)>> \o digits_removed(Tail(allophone))

\* a plausible slip: only a trailing stress digit is removed
allophone_contains_digit_trailing(allophone) ==
    IF allophone # <<>> /\ isdigit(allophone[Len(allophone)])
    THEN <<allophone, SubSeq(allophone, 1, Len(allophone) - 1)>>
    ELSE IF digits_removed(allophone) # allophone
    THEN <<allophone, allophone>>
    ELSE <<>>

allophone_contains_digit(allophone) ==
    IF digits_removed(allophone) # allophone
    THEN <<allophone, digits_removed(allophone)>>
    ELSE <<>>

(***************************************************************************)
(* find_closest_match: one loop over each catalog, in declaration order.   *)
(* ClosestIn(d, i, s) is the loop over d from its i-th entry on; it yields *)
(* the files of the entry the loop returns at, or <<>> when the loop ends. *)
(***************************************************************************)
RECURSIVE ClosestIn(_, _, _)
ClosestIn(d, i, input_str) ==
    IF i > Len(d) THEN <<>>
    ELSE IF Len(input_str) = 1
    THEN IF d[i].key = input_str \o input_str
         THEN DictGet(d, input_str \o input_str)
         ELSE ClosestIn(d, i + 1, input_str)
    ELSE IF Len(input_str) > 1
    THEN IF input_str[1] = d[i].key[1]
         THEN DictGet(d, d[i].key)
         ELSE ClosestIn(d, i + 1, input_str)
    ELSE ClosestIn(d, i + 1, input_str)

\* a plausible slip: the single-variant catalog is searched first
find_closest_match_unnumbered_first(input_str) ==
    IF ClosestIn(unnumbered, 1, input_str) # <<>>
    THEN ClosestIn(unnumbered, 1, input_str)
    ELSE ClosestIn(numbered, 1, input_str)

find_closest_match(input_str) ==
    IF ClosestIn(numbered, 1, input_str) # <<>>
    THEN ClosestIn(numbered, 1, input_str)
    ELSE ClosestIn(unnumbered, 1, input_str)

(***************************************************************************)
(* lookup_allophone: the WAV file of an allophone, "" when there is none.  *)
(***************************************************************************)
SPACE == <<"S", "P", "A", "C", "E">>

PERIOD == <<"P", "E", "R", "I", "O", "D">>

COMMA == <<"C", "O", "M", "M", "A">>

\* the tail of lookup_allophone: match = find_closest_match(allophone)
ClosestOrNone(allophone) ==
    IF find_closest_match(allophone) # <<>>
    THEN find_closest_match(allophone)[1]
    ELSE ""

\* a plausible slip: the last variant of a numbered allophone is taken
lookup_allophone_last_variant(allophone) ==
    IF allophone = SPACE THEN "SPACE.wav"
    ELSE IF allophone = PERIOD THEN "PERIOD.wav"
    ELSE IF allophone = COMMA THEN "COMMA.wav"
    ELSE IF InDict(numbered, allophone)
    THEN DictGet(numbered, allophone)[Len(DictGet(numbered, allophone))]
    ELSE IF InDict(unnumbered, allophone) THEN DictGet(unnumbered, allophone)[1]
    ELSE ClosestOrNone(allophone)

\* a plausible slip: the fallback is given the stripped allophone
lookup_allophone_stripped_fallback(allophone) ==
    IF allophone = SPACE THEN "SPACE.wav"
    ELSE IF allophone = PERIOD THEN "PERIOD.wav"
    ELSE IF allophone = COMMA THEN "COMMA.wav"
    ELSE IF InDict(numbered, allophone) THEN DictGet(numbered, allophone)[1]
    ELSE IF InDict(unnumbered, allophone) THEN DictGet(unnumbered, allophone)[1]
    ELSE IF allophone_contains_digit(allophone) # <<>>
    THEN IF InDict(numbered, allophone_contains_digit(allophone)[2])
         THEN DictGet(numbered, allophone_contains_digit(allophone)[2])[1]
         ELSE IF InDict(unnumbered, allophone_contains_digit(allophone)[2])
         THEN DictGet(unnumbered, allophone_contains_digit(allophone)[2])[1]
         ELSE ClosestOrNone(allophone_contains_digit(allophone)[2])
    ELSE ClosestOrNone(allophone)

lookup_allophone(allophone) ==
    IF allophone = SPACE THEN "SPACE.wav"
    ELSE IF allophone = PERIOD THEN "PERIOD.wav"
    ELSE IF allophone = COMMA THEN "COMMA.wav"
    ELSE IF InDict(numbered, allophone) THEN DictGet(numbered, allophone)[1]
    ELSE IF InDict(unnumbered, allophone) THEN DictGet(unnumbered, allophone)[1]
    ELSE IF allophone_contains_digit(allophone) # <<>>
    THEN IF InDict(numbered, allophone_contains_digit(allophone)[2])
         THEN DictGet(numbered, allophone_contains_digit(allophone)[2])[1]
         ELSE IF InDict(unnumbered, allophone_contains_digit(allophone)[2])
         THEN DictGet(unnumbered, allophone_contains_digit(allophone)[2])[1]
         ELSE ClosestOrNone(allophone)
    ELSE ClosestOrNone(allophone)

(***************************************************************************)
(* parse_input: re.findall(r'\w+|\s|[^\w\s]', input_text).  Matching       *)
(* restarts after each match; a character no alternative matches would be  *)
(* skipped.                                                                *)
(***************************************************************************)
\* the last position of the greedy match of \w+ that starts at position i
RECURSIVE WordRunEnd(_, _)
WordRunEnd(text, i) ==
    IF i < Len(text) /\ IsWordChar(text[i + 1])
    THEN WordRunEnd(text, i + 1)
    ELSE i

\* a plausible slip: the punctuation alternative only knows '.' and ','
RECURSIVE FindTokens_period_comma_only(_, _)
FindTokens_period_comma_only(text, i) ==
    IF i > Len(text) THEN <<>>
    ELSE IF IsWordChar(text[i])
    THEN <<SubSeq(text, i, WordRunEnd(text, i))>>
         \o FindTokens_period_comma_only(text, WordRunEnd(text, i) + 1)
    ELSE IF IsSpaceChar(text[i]) \/ text[i] \in {".", ","}
    THEN <<SubSeq(text, i, i)>> \o FindTokens_period_comma_only(text, i + 1)
    ELSE FindTokens_period_comma_only(text, i + 1)

RECURSIVE FindTokens(_, _)
FindTokens(text, i) ==
    IF i > Len(text) THEN <<>>
    ELSE IF IsWordChar(text[i])
    THEN <<SubSeq(text, i, WordRunEnd(text, i))>>
         \o FindTokens(text, WordRunEnd(text, i) + 1)
    ELSE IF IsSpaceChar(text[i])
    THEN <<SubSeq(text, i, i)>> \o FindTokens(text, i + 1)
    ELSE IF ~IsWordChar(text[i]) /\ ~IsSpaceChar(text[i])
    THEN <<SubSeq(text, i, i)>> \o FindTokens(text, i + 1)
    ELSE FindTokens(text, i + 1)

parse_input(input_text) == FindTokens(input_text, 1)

(***************************************************************************)
(* text_to_allophones: the words of the lower-cased text, each mapped to   *)
(* the first pronunciation the dictionary has for it, or to itself.        *)
(***************************************************************************)
\* re.findall(r'\w+', text), from position i on
RECURSIVE FindWords(_, _)
FindWords(text, i) ==
    IF i > Len(text) THEN <<>>
    ELSE IF IsWordChar(text[i])
    THEN <<SubSeq(text, i, WordRunEnd(text, i))>>
         \o FindWords(text, WordRunEnd(text, i) + 1)
    ELSE FindWords(text, i + 1)

Range(s) == {s[i] : i \in DOMAIN s}

\* dict.get(word, []) of the pronunciation dictionary
DictGetOrEmpty(dict, word) == IF word \in DOMAIN dict THEN dict[word] ELSE <<>>

text_to_allophones(text, dict) ==
    [word \in Range(FindWords(lower(text), 1)) |->
        IF DictGetOrEmpty(dict, word) # <<>>
        THEN DictGetOrEmpty(dict, word)[1]
        ELSE <<word>>]

(***************************************************************************)
(* process_punctuation: the label stream of the parsed input.              *)
(***************************************************************************)
RECURSIVE process_punctuation(_, _)
process_punctuation(parsed, dict) ==
    IF parsed = <<>> THEN <<>>
    ELSE (IF Head(parsed) \in DOMAIN dict THEN dict[Head(parsed)]
          ELSE IF Head(parsed) = <<",">> THEN <<COMMA>>
          ELSE IF Head(parsed) = <<" ">> THEN <<SPACE>>
          ELSE IF Head(parsed) = <<".">> THEN <<PERIOD>>
          ELSE <<>>)
         \o process_punctuation(Tail(parsed), dict)

(***************************************************************************)
(* The loop of main over the label stream: the WAV file of each label, a   *)
(* label without one left out.                                             *)
(***************************************************************************)
RECURSIVE LookupAll(_)
LookupAll(labels) ==
    IF labels = <<>> THEN <<>>
    ELSE (IF lookup_allophone(Head(labels)) # ""
          THEN <<lookup_allophone(Head(labels))>>
          ELSE <<>>)
         \o LookupAll(Tail(labels))

\* [item for item in s if item != x]
Without(s, x) == SelectSeq(s, LAMBDA item : item # x)

VARIABLES
    pc,               \* the position of the run
    allophone,        \* the argument of a direct call of lookup_allophone
    wav_filename,     \* what that call returned
    input_str,        \* the argument of a direct call of find_closest_match
    match,            \* what that call returned
    cmu_dict,         \* the pronunciation dictionary: word -> pronunciations
    IGNORE_SPACES,    \* the three configuration flags
    IGNORE_PERIODS,
    IGNORE_COMMAS,
    input_string,     \* main: the text read from the prompt
    parsed_input,     \* main: the tokens of the text
    allophone_dict,   \* main: word -> labels
    processed_input,  \* main: the label stream
    result,           \* main: the WAV file list
    wav_files,        \* write_wav: its argument
    next_file,        \* write_wav: the position of the for loop
    sample_rate,      \* write_wav: None, or the rate of the first file
    combined_audio,   \* write_wav: the audio collected so far
    files_read,       \* the files wavfile.read was called on, in order
    file_rate,        \* the rate of each file of the directory read so far
    written           \* the calls of wavfile.write: (rate, data)

vars == <<pc, allophone, wav_filename, input_str, match, cmu_dict,
          IGNORE_SPACES, IGNORE_PERIODS, IGNORE_COMMAS, input_string,
          parsed_input, allophone_dict, processed_input, result, wav_files,
          next_file, sample_rate, combined_audio, files_read, file_rate,
          written>>

resolver_vars == <<allophone, wav_filename, input_str, match>>

config_vars == <<cmu_dict, IGNORE_SPACES, IGNORE_PERIODS, IGNORE_COMMAS>>

main_vars == <<input_string, parsed_input, allophone_dict, processed_input,
               result>>

wav_vars == <<wav_files, next_file, sample_rate, combined_audio, files_read,
              file_rate, written>>

\* Python's None, and a value that is not None
None == <<>>

Some(v) == <<v>>

(***************************************************************************)
(* prune_punctuation                                                       *)
(***************************************************************************)
\* a plausible slip: the three tests chained with elif
prune_punctuation_elif(allophones) ==
    IF IGNORE_SPACES THEN Without(allophones, "SPACE.wav")
    ELSE IF IGNORE_PERIODS THEN Without(allophones, "PERIOD.wav")
    ELSE IF IGNORE_COMMAS THEN Without(allophones, "COMMA.wav")
    ELSE allophones

prune_punctuation(allophones) ==
    LET r1 == IF IGNORE_SPACES THEN Without(allophones, "SPACE.wav")
              ELSE allophones
        r2 == IF IGNORE_PERIODS THEN Without(r1, "PERIOD.wav") ELSE r1
    IN  IF IGNORE_COMMAS THEN Without(r2, "COMMA.wav") ELSE r2

(***************************************************************************)
(* The inputs of the runs.                                                 *)
(***************************************************************************)
BoundedSeq(S, n) == UNION {[1..k -> S] : k \in 0..n}

\* the labels the resolver is called on directly
Labels ==
    BoundedSeq(LabelChars, MaxLabelLen)
        \cup Keys(numbered) \cup Keys(unnumbered) \cup {SPACE, PERIOD, COMMA}

\* the texts typed at the prompt
Texts == BoundedSeq(TextChars, MaxTextLen)

HH == <<"H", "H">>

AY1 == <<"A", "Y", "1">>

\* two small pronunciation dictionaries: word -> list of pronunciations
CmuDictA ==
    (<<"h", "i">> :> << <<HH, AY1>> >>)
        @@ (<<"i">> :> << <<AY1>> >>)
        @@ (<<"h">> :> << <<<<"E", "Y", "1">>, <<"C", "H">>>> >>)

CmuDictB ==
    (<<"h", "i">> :> << <<HH, AY1>> >>)
        @@ (<<"i">> :> << <<<<"A", "H", "0">>>>, <<AY1>> >>)
        @@ (<<"i", "h">> :> << <<<<"Q">>, <<"Z", "1">>>> >>)

CmuDicts == {CmuDictA, CmuDictB}

NoFiles == [f \in {} |-> 0]

ResolverIdle ==
    /\ allophone = <<>>
    /\ wav_filename = ""
    /\ input_str = <<>>
    /\ match = <<>>

MainIdle ==
    /\ input_string = <<>>
    /\ parsed_input = <<>>
    /\ allophone_dict = <<>>
    /\ processed_input = <<>>
    /\ result = <<>>

WavIdle ==
    /\ wav_files = <<>>
    /\ next_file = 1
    /\ sample_rate = None
    /\ combined_audio = <<>>
    /\ files_read = <<>>
    /\ file_rate = NoFiles
    /\ written = <<>>

Config ==
    /\ cmu_dict \in CmuDicts
    /\ IGNORE_SPACES \in BOOLEAN
    /\ IGNORE_PERIODS \in BOOLEAN
    /\ IGNORE_COMMAS \in BOOLEAN

(***************************************************************************)
(* The resolver, called directly on a label.                               *)
(***************************************************************************)
InitLookup ==
    /\ \/ /\ pc = "call_lookup_allophone"
          /\ allophone \in Labels
          /\ input_str = <<>>
       \/ /\ pc = "call_find_closest_match"
          /\ input_str \in Labels
          /\ allophone = <<>>
    /\ wav_filename = ""
    /\ match = <<>>
    /\ cmu_dict = CmuDictA
    /\ IGNORE_SPACES = TRUE
    /\ IGNORE_PERIODS = TRUE
    /\ IGNORE_COMMAS = TRUE
    /\ MainIdle
    /\ WavIdle

LookupAllophone ==
    /\ pc = "call_lookup_allophone"
    /\ wav_filename' = lookup_allophone(allophone)
    /\ pc' = "lookup_allophone_returned"
    /\ UNCHANGED <<allophone, input_str, match, config_vars, main_vars,
                   wav_vars>>

FindClosestMatch ==
    /\ pc = "call_find_closest_match"
    /\ match' = find_closest_match(input_str)
    /\ pc' = "find_closest_match_returned"
    /\ UNCHANGED <<allophone, input_str, wav_filename, config_vars, main_vars,
                   wav_vars>>

NextLookup == LookupAllophone \/ FindClosestMatch

SpecLookup == InitLookup /\ [][NextLookup]_vars

(***************************************************************************)
(* main, one action per statement, and write_wav, one action per           *)
(* iteration of its loop.                                                  *)
(***************************************************************************)
Init ==
    /\ pc = "input"
    /\ Config
    /\ ResolverIdle
    /\ MainIdle
    /\ WavIdle

\* input_string = input("say> ")
Input ==
    /\ pc = "input"
    /\ input_string' \in Texts
    /\ pc' = "parse_input"
    /\ UNCHANGED <<resolver_vars, config_vars, parsed_input, allophone_dict,
                   processed_input, result, wav_vars>>

ParseInput ==
    /\ pc = "parse_input"
    /\ parsed_input' = parse_input(input_string)
    /\ pc' = "text_to_allophones"
    /\ UNCHANGED <<resolver_vars, config_vars, input_string, allophone_dict,
                   processed_input, result, wav_vars>>

TextToAllophones ==
    /\ pc = "text_to_allophones"
    /\ allophone_dict' = text_to_allophones(input_string, cmu_dict)
    /\ pc' = "process_punctuation"
    /\ UNCHANGED <<resolver_vars, config_vars, input_string, parsed_input,
                   processed_input, result, wav_vars>>

ProcessPunctuation ==
    /\ pc = "process_punctuation"
    /\ processed_input' = process_punctuation(parsed_input, allophone_dict)
    /\ pc' = "lookup"
    /\ UNCHANGED <<resolver_vars, config_vars, input_string, parsed_input,
                   allophone_dict, result, wav_vars>>

\* for article in processed_input: ...
Lookup ==
    /\ pc = "lookup"
    /\ result' = LookupAll(processed_input)
    /\ pc' = "prune"
    /\ UNCHANGED <<resolver_vars, config_vars, input_string, parsed_input,
                   allophone_dict, processed_input, wav_vars>>

\* if IGNORE_SPACES or IGNORE_PERIODS or IGNORE_COMMAS: ...
Prune ==
    /\ pc = "prune"
    /\ IGNORE_SPACES \/ IGNORE_PERIODS \/ IGNORE_COMMAS
    /\ result' = prune_punctuation(result)
    /\ pc' = "write_wav"
    /\ UNCHANGED <<resolver_vars, config_vars, input_string, parsed_input,
                   allophone_dict, processed_input, wav_vars>>

NoPrune ==
    /\ pc = "prune"
    /\ ~(IGNORE_SPACES \/ IGNORE_PERIODS \/ IGNORE_COMMAS)
    /\ pc' = "write_wav"
    /\ UNCHANGED <<resolver_vars, config_vars, main_vars, wav_vars>>

\* write_wav(result): the two assignments before the loop
WriteWavEnter ==
    /\ pc = "write_wav"
    /\ wav_files' = result
    /\ combined_audio' = <<>>
    /\ sample_rate' = None
    /\ next_file' = 1
    /\ pc' = "write_wav_loop"
    /\ UNCHANGED <<resolver_vars, config_vars, main_vars, files_read,
                   file_rate, written>>

\* a plausible slip: the rates are never compared
RateMismatch_never(rate, current_sample_rate) == FALSE

\* the elif of the loop: a rate is set and differs from the file's
RateMismatch(rate, current_sample_rate) ==
    rate # None /\ rate # Some(current_sample_rate)

\* one iteration of the loop of write_wav.  The audio data of a file is
\* modelled by the file's name.
WriteWavRead ==
    /\ pc = "write_wav_loop"
    /\ next_file <= Len(wav_files)
    /\ LET wav_file == wav_files[next_file] IN
       \E current_sample_rate \in
             (IF wav_file \in DOMAIN file_rate THEN {file_rate[wav_file]}
              ELSE SampleRates) :
          /\ file_rate' = (IF wav_file \in DOMAIN file_rate THEN file_rate
                           ELSE file_rate @@ (wav_file :> current_sample_rate))
          /\ files_read' = Append(files_read, wav_file)
          /\ IF sample_rate = None
             THEN /\ sample_rate' = Some(current_sample_rate)
                  /\ combined_audio' = combined_audio \o <<wav_file>>
                  /\ next_file' = next_file + 1
                  /\ pc' = pc
             ELSE IF RateMismatch(sample_rate, current_sample_rate)
             THEN /\ pc' = "ValueError"
                  /\ UNCHANGED <<sample_rate, combined_audio, next_file>>
             ELSE /\ combined_audio' = combined_audio \o <<wav_file>>
                  /\ next_file' = next_file + 1
                  /\ UNCHANGED <<sample_rate, pc>>
    /\ UNCHANGED <<resolver_vars, config_vars, main_vars, wav_files, written>>

\* wavfile.write(path, sample_rate, combined_audio), after the loop
WriteWavWrite ==
    /\ pc = "write_wav_loop"
    /\ next_file > Len(wav_files)
    /\ written' = Append(written,
                         [rate |-> sample_rate, data |-> combined_audio])
    /\ pc' = "print"
    /\ UNCHANGED <<resolver_vars, config_vars, main_vars, wav_files,
                   next_file, sample_rate, combined_audio, files_read,
                   file_rate>>

Next ==
    \/ Input
    \/ ParseInput
    \/ TextToAllophones
    \/ ProcessPunctuation
    \/ Lookup
    \/ Prune
    \/ NoPrune
    \/ WriteWavEnter
    \/ WriteWavRead
    \/ WriteWavWrite

Spec == Init /\ [][Next]_vars

(***************************************************************************)
(* Vocabulary of the properties.                                           *)
(***************************************************************************)
\* both catalogs in the order the fallback visits them
Catalog == numbered \o unnumbered

AllKeys == Keys(numbered) \cup Keys(unnumbered)

HasDigit(label) == \E i \in DOMAIN label : label[i] \in Digits

Stripped(label) == SelectSeq(label, LAMBDA char : char \notin Digits)

Min(S) == CHOOSE x \in S : \A y \in S : x <= y

\* the positions of the catalog entries whose key is k
KeyAt(k) == {i \in DOMAIN Catalog : Catalog[i].key = k}

\* the positions of the catalog entries whose key starts as the label does
SameFirstLetter(label) ==
    {i \in DOMAIN Catalog : Catalog[i].key[1] = label[1]}

\* the second and later variants of the multi-variant allophones
NonFirstVariants ==
    UNION {{numbered[i].files[j] : j \in 2..Len(numbered[i].files)} :
              i \in DOMAIN numbered}

Sentinels == {"SPACE.wav", "PERIOD.wav", "COMMA.wav"}

RECURSIVE Flatten(_)
Flatten(tokens) ==
    IF tokens = <<>> THEN <<>> ELSE Head(tokens) \o Flatten(Tail(tokens))

IsWordToken(t) == t # <<>> /\ \A i \in DOMAIN t : IsWordChar(t[i])

IsSpaceToken(t) == Len(t) = 1 /\ IsSpaceChar(t[1])

IsPunctuationToken(t) ==
    Len(t) = 1 /\ ~IsWordChar(t[1]) /\ ~IsSpaceChar(t[1])

AfterParse == pc \notin {"input", "parse_input"}

AfterExpand ==
    pc \notin {"input", "parse_input", "text_to_allophones",
               "process_punctuation"}

AfterPrune == pc \in {"write_wav", "write_wav_loop", "ValueError", "print"}

(***************************************************************************)
(* Properties of the resolver (SpecLookup).                                *)
(***************************************************************************)
\* C1: a label that is a key of the multi-variant catalog resolves to the
\* first file listed for the key, a label that is a key of the
\* single-variant catalog resolves to the key's only file, and no second or
\* later variant is ever returned.
C1_ExactKeyFirstVariant ==
    pc = "lookup_allophone_returned" =>
        /\ \A i \in DOMAIN numbered :
              allophone = numbered[i].key => wav_filename = numbered[i].files[1]
        /\ \A i \in DOMAIN unnumbered :
              allophone = unnumbered[i].key =>
                  /\ Len(unnumbered[i].files) = 1
                  /\ wav_filename = unnumbered[i].files[1]
        /\ wav_filename \notin NonFirstVariants

C1_Witness ==
    /\ pc = "lookup_allophone_returned"
    /\ allophone = <<"K", "K">>
    /\ wav_filename = "KK1.wav"

\* C2: a label with a digit whose digit-stripped form is a catalog key
\* resolves to the first file of the stripped key, the multi-variant
\* catalog taking precedence ('AY1' -> 'AY.wav', 'ER0' -> 'ER1.wav').
C2_StrippedKey ==
    (pc = "lookup_allophone_returned" /\ HasDigit(allophone)
        /\ Stripped(allophone) \in AllKeys) =>
        /\ wav_filename = Catalog[Min(KeyAt(Stripped(allophone)))].files[1]
        /\ (allophone = AY1 => wav_filename = "AY.wav")
        /\ (allophone = <<"E", "R", "0">> => wav_filename = "ER1.wav")

C2_Witness ==
    /\ pc = "lookup_allophone_returned"
    /\ allophone = <<"E", "1", "R">>
    /\ wav_filename = "ER1.wav"

C4_SingleLetterFirstLetterRule ==
    (pc = "find_closest_match_returned" /\ Len(input_str) = 1
        /\ input_str \o input_str \notin AllKeys) =>
        match = (IF SameFirstLetter(input_str) # {}
                 THEN Catalog[Min(SameFirstLetter(input_str))].files
                 ELSE <<>>)

\* C9: a label with a digit whose stripped form is in neither catalog is
\* resolved by the fallback on the label as given: by the first-letter rule
\* when it has more than one character ('Z1' -> 'ZH.wav', while 'Z' ->
\* 'ZZ.wav'), and to no match when its first character is a digit.
C9_FallbackOnOriginalLabel ==
    pc = "lookup_allophone_returned" =>
        /\ (HasDigit(allophone) /\ Stripped(allophone) \notin AllKeys) =>
              /\ wav_filename =
                    (IF Len(allophone) > 1 /\ SameFirstLetter(allophone) # {}
                     THEN Catalog[Min(SameFirstLetter(allophone))].files[1]
                     ELSE "")
              /\ (allophone[1] \in Digits => wav_filename = "")
        /\ (allophone = <<"Z", "1">> => wav_filename = "ZH.wav")
        /\ (allophone = <<"Z">> => wav_filename = "ZZ.wav")

C9_Witness ==
    /\ pc = "lookup_allophone_returned"
    /\ allophone = <<"Z", "1">>
    /\ wav_filename = "ZH.wav"

(***************************************************************************)
(* Properties of the pipeline (Spec).                                      *)
(***************************************************************************)
\* the label stream in which every word token stands for the labels the
\* pronunciation lookup produced for the word
RECURSIVE ExpectedLabels(_)
ExpectedLabels(tokens) ==
    IF tokens = <<>> THEN <<>>
    ELSE (IF IsWordToken(Head(tokens))
          THEN text_to_allophones(input_string, cmu_dict)[lower(Head(tokens))]
          ELSE IF Head(tokens) = <<",">> THEN <<COMMA>>
          ELSE IF Head(tokens) = <<" ">> THEN <<SPACE>>
          ELSE IF Head(tokens) = <<".">> THEN <<PERIOD>>
          ELSE <<>>)
         \o ExpectedLabels(Tail(tokens))

\* C5: the label stream substitutes every word token, whatever its letter
\* case, with the labels the pronunciation lookup produced for that word,
\* in token order; no word token is left out.
C5_EveryWordTokenSubstituted ==
    AfterExpand => processed_input = ExpectedLabels(parsed_input)

\* C6: the tokens of parse_input, concatenated in order, are the input
\* text; each token is a maximal run of word characters, one whitespace
\* character or one other character.
C6_TokensRoundTrip ==
    AfterParse =>
        /\ Flatten(parsed_input) = input_string
        /\ \A i \in DOMAIN parsed_input :
              \/ IsWordToken(parsed_input[i])
              \/ IsSpaceToken(parsed_input[i])
              \/ IsPunctuationToken(parsed_input[i])
        /\ \A i \in 1..(Len(parsed_input) - 1) :
              ~(IsWordToken(parsed_input[i]) /\ IsWordToken(parsed_input[i + 1]))

C6_Witness ==
    /\ AfterParse
    /\ input_string = <<"h", "i", "!">>
    /\ parsed_input = << <<"h", "i">>, <<"!">> >>

\* a file the filter or the loop of main leaves out
LeftOut(f) ==
    \/ f = ""
    \/ IGNORE_SPACES /\ f = "SPACE.wav"
    \/ IGNORE_PERIODS /\ f = "PERIOD.wav"
    \/ IGNORE_COMMAS /\ f = "COMMA.wav"

\* the resolution of the label stream, in order, without the files left out
ExpectedFragments ==
    SelectSeq([i \in DOMAIN processed_input |->
                  lookup_allophone(processed_input[i])],
              LAMBDA f : ~LeftOut(f))

\* a word that is no catalog label and that no fallback rule matches
MatchesNothing(word) ==
    /\ word \notin {SPACE, PERIOD, COMMA}
    /\ word \notin AllKeys
    /\ Stripped(word) \notin AllKeys
    /\ Len(word) = 1 => word \o word \notin AllKeys
    /\ Len(word) > 1 => SameFirstLetter(word) = {}

\* C7: the file list handed to write_wav is the resolution of the label
\* stream in order, without the labels that resolve to nothing and without
\* the sentinel files of the flags that are set; "hi." with hi -> HH AY1
\* and all flags set gives HH1.wav, AY.wav; words that are unknown and
\* match nothing contribute no file.
C7_FragmentSequence ==
    AfterPrune =>
        /\ result = ExpectedFragments
        /\ pc # "write_wav" => wav_files = result
        /\ (/\ input_string = <<"h", "i", ".">>
            /\ allophone_dict = (<<"h", "i">> :> <<HH, AY1>>)
            /\ IGNORE_SPACES /\ IGNORE_PERIODS /\ IGNORE_COMMAS)
              => result = <<"HH1.wav", "AY.wav">>
        /\ (\A word \in Range(FindWords(lower(input_string), 1)) :
               word \notin DOMAIN cmu_dict /\ MatchesNothing(word))
              => Range(result) \subseteq Sentinels

C7_Witness ==
    /\ pc = "write_wav_loop"
    /\ input_string = <<"h", "i", ".">>
    /\ IGNORE_SPACES /\ IGNORE_PERIODS /\ IGNORE_COMMAS
    /\ wav_files = <<"HH1.wav", "AY.wav">>

\* C8: when a file's sample rate differs from the first file's, write_wav
\* raises at the first such file, reads no file after it and never reaches
\* the write; a write happens only when all files have the same rate.
C8_MismatchRaisesBeforeWrite ==
    /\ pc = "ValueError" =>
          /\ written = <<>>
          /\ Len(files_read) >= 2
          /\ files_read = SubSeq(wav_files, 1, Len(files_read))
          /\ file_rate[files_read[Len(files_read)]] # file_rate[wav_files[1]]
          /\ \A j \in 1..(Len(files_read) - 1) :
                file_rate[files_read[j]] = file_rate[wav_files[1]]
    /\ written # <<>> =>
          /\ files_read = wav_files
          /\ \A j \in DOMAIN wav_files :
                file_rate[wav_files[j]] = file_rate[wav_files[1]]

C8_Witness ==
    /\ pc = "ValueError"
    /\ Len(wav_files) = 3
    /\ Len(files_read) = 2
    /\ written = <<>>

\* C10: whenever write_wav reaches the write, the rate it passes is defined
\* (not None) and is the rate of every file read, for every file list main
\* can hand to it, the empty list included.
C10_WrittenRateDefined ==
    written # <<>> =>
        /\ written[1].rate # None
        /\ \A j \in DOMAIN files_read :
              written[1].rate = Some(file_rate[files_read[j]])

====
